---- MODULE Spec2Model ----
(***************************************************************************)
(* Model of horizons/world/ingametype.py: the metaclass IngameType that    *)
(* builds one ingame type (a class) per yaml definition, fills its name    *)
(* table, turns the production line ids of the producer component into     *)
(* integers, loads the fife object on first use and restores instances.    *)
(*                                                                         *)
(* Python values of mixed type are modelled as records of one shape:       *)
(*   a name value      [kind, text]     kind is "none", "str" or "lazy";   *)
(*                                      text is the sequence of characters *)
(*   a dict key        [isint, i, s]    an int i or a string s             *)
(*   a component       [isdict, tag, productionlines, other]               *)
(***************************************************************************)
EXTENDS Integers, Sequences, FiniteSets, TLC

\* ---------------------------------------------------------------- bounds
MaxTierBound == 2      \* tiers a definition may mention: 0..MaxTierBound
MaxLines == 2          \* entries of one productionlines dict
MaxAccesses == 3       \* reads of _fife_object
MaxInstances == 2      \* calls of load

VARIABLES
    TIER,            \* horizons.constants.TIER: [NATURE, CURRENT_MAX]
    definition,      \* the yaml data as authored (never changes)
    yaml_data,       \* the yaml_data dict object handed to IngameType(id, yaml_data)
    types,           \* id -> the type that IngameType(id, yaml_data) returned
    result,          \* "none" before the call, "ok", or the exception it raised
    steps,           \* the steps of the call that ran, in order
    load_object_calls, \* invocations of _loadObject on the type
    fife_objects,    \* the values the reads of _fife_object returned, in order
    instances,       \* the objects the calls of load allocated, in order
    load_calls       \* the calls of load: their arguments and the index of the
                     \* object of instances that the call returned

vars == <<TIER, definition, yaml_data, types, result, steps,
          load_object_calls, fife_objects, instances, load_calls>>

\* ------------------------------------------------------------ name values
None == [kind |-> "none", text |-> <<>>]

Str(t) == [kind |-> "str", text |-> t]

\* horizons.i18n.gettext_lazy: a lazy translation object wrapping the text
LazyT(t) == [kind |-> "lazy", text |-> t]

\* string.startswith("_ ")
startswith_marker(string) ==
    /\ Len(string.text) >= 2
    /\ string.text[1] = "_"
    /\ string.text[2] = " "

\* variant: the lazy translation object keeps the "_ " marker
strip_keeps_marker(string) ==
    IF string.kind = "none" \/ string.text = <<>>
    THEN Str(<<>>)
    ELSE IF startswith_marker(string)
         THEN LazyT(string.text)
         ELSE string

strip_translation_marks(string) ==
    IF string.kind = "none" \/ string.text = <<>>
    THEN Str(<<>>)
    ELSE IF startswith_marker(string)
         THEN LazyT(SubSeq(string.text, 3, Len(string.text)))
         ELSE string

\* dict.get(key): None when the key is missing
DictGet(d, key) == IF key \in DOMAIN d THEN d[key] ELSE None

\* variant: a tier without a name of its own gets no entry
RECURSIVE fill_without_fall_down(_, _, _, _)
fill_without_fall_down(name_data, lvl, last, names) ==
    IF lvl > last
    THEN [raised |-> FALSE, names |-> names]
    ELSE LET name == DictGet(name_data, lvl) IN
         IF name = None
         THEN IF DictGet(names, lvl - 1) = None /\ names = <<>>
              THEN [raised |-> TRUE, names |-> names]
              ELSE fill_without_fall_down(name_data, lvl + 1, last, names)
         ELSE fill_without_fall_down(name_data, lvl + 1, last,
                  names @@ (lvl :> strip_translation_marks(name)))

\* variant: a start tier without a name falls down to the name of a lower tier
RECURSIVE fill_from_lower_tier(_, _, _, _)
fill_from_lower_tier(name_data, lvl, last, names) ==
    IF lvl > last
    THEN [raised |-> FALSE, names |-> names]
    ELSE LET name == DictGet(name_data, lvl) IN
         IF name = None
         THEN LET prev == IF DictGet(names, lvl - 1) = None
                          THEN strip_translation_marks(DictGet(name_data, lvl - 1))
                          ELSE DictGet(names, lvl - 1)
              IN IF DictGet(names, lvl - 1) = None /\ DictGet(name_data, lvl - 1) = None
                 THEN [raised |-> TRUE, names |-> names]
                 ELSE fill_from_lower_tier(name_data, lvl + 1, last,
                                           names @@ (lvl :> prev))
         ELSE fill_from_lower_tier(name_data, lvl + 1, last,
                  names @@ (lvl :> strip_translation_marks(name)))

\* the loop of __init__ that fills _level_specific_names from lvl to last
RECURSIVE fill_level_specific_names(_, _, _, _)
fill_level_specific_names(name_data, lvl, last, names) ==
    IF lvl > last
    THEN [raised |-> FALSE, names |-> names]
    ELSE LET name == DictGet(name_data, lvl) IN
         IF name = None
         THEN LET prev == DictGet(names, lvl - 1) IN
              IF prev = None
              THEN [raised |-> TRUE, names |-> names]
              ELSE fill_level_specific_names(name_data, lvl + 1, last,
                                             names @@ (lvl :> prev))
         ELSE fill_level_specific_names(name_data, lvl + 1, last,
                  names @@ (lvl :> strip_translation_marks(name)))

\* yaml_data.get('tier', TIER.NATURE)
start_tier_of(data, tier) == IF data.has_tier THEN data.tier ELSE tier.NATURE

\* the name part of __init__: _level_specific_names (set only for a dict) and _name
init_names(name_data, start_tier, tier) ==
    IF name_data.isdict
    THEN LET filled == fill_level_specific_names(name_data.dict, start_tier,
                                                 tier.CURRENT_MAX, <<>>)
         IN IF filled.raised
            THEN [raised |-> TRUE, has_level_specific_names |-> TRUE,
                  level_specific_names |-> filled.names, name |-> None]
            ELSE [raised |-> FALSE, has_level_specific_names |-> TRUE,
                  level_specific_names |-> filled.names,
                  name |-> filled.names[start_tier]]
    ELSE [raised |-> FALSE, has_level_specific_names |-> FALSE,
          level_specific_names |-> <<>>,
          name |-> strip_translation_marks(name_data.single)]

\* ------------------------------------------------------- production lines
IntKey(n) == [isint |-> TRUE, i |-> n, s |-> ""]

StrKey(t) == [isint |-> FALSE, i |-> 0, s |-> t]

\* int(hashlib.sha1(old_key).hexdigest(), 16), of which the model keeps the
\* lowest 32 bits: low = bits 0..30, bit31 = bit 31 (values of the real SHA-1)
sha1_int(old_key) ==
    CASE old_key = "wood"      -> [bit31 |-> 0, low |-> 255025051]
      [] old_key = "boards"    -> [bit31 |-> 1, low |-> 1093467670]
      [] old_key = "line12554" -> [bit31 |-> 0, low |-> 1179173050]
      [] old_key = "line78947" -> [bit31 |-> 0, low |-> 1179173050]

\* variant: the hash is cropped to a signed 32 bit integer
mod_2_31_signed(digest) ==
    IF digest.bit31 = 1 THEN digest.low - 2147483647 - 1 ELSE digest.low

\* new_key % 2**31
mod_2_31(digest) == digest.low

\* variant: integer keys are cropped to 31 bits as well
new_key_of_crop_all(old_key) ==
    IF old_key.isint
    THEN IF old_key.i < 0 THEN old_key.i + 2147483647 + 1 ELSE old_key.i
    ELSE mod_2_31(sha1_int(old_key.s))

\* the key the loop of _parse_component_templates computes for old_key
new_key_of(old_key) ==
    IF old_key.isint
    THEN old_key.i
    ELSE mod_2_31(sha1_int(old_key.s))

\* variant: a later entry silently replaces an earlier one with the same key
RECURSIVE new_data_of_overwrite(_, _, _)
new_data_of_overwrite(original_data, order, new_data) ==
    IF order = <<>>
    THEN [raised |-> FALSE, new_data |-> new_data]
    ELSE LET old_key == Head(order)
             new_key == IntKey(new_key_of(old_key))
         IN new_data_of_overwrite(original_data, Tail(order),
                (new_key :> original_data[old_key]) @@ new_data)

\* the loop over original_data.iteritems(), in the order the dict yields its keys
RECURSIVE new_data_of(_, _, _)
new_data_of(original_data, order, new_data) ==
    IF order = <<>>
    THEN [raised |-> FALSE, new_data |-> new_data]
    ELSE LET old_key == Head(order)
             new_key == IntKey(new_key_of(old_key))
         IN IF new_key \in DOMAIN new_data
            THEN [raised |-> TRUE, new_data |-> new_data]
            ELSE new_data_of(original_data, Tail(order),
                             new_data @@ (new_key :> original_data[old_key]))

\* isinstance(comp, dict) and comp.iterkeys().next() == 'ProducerComponent'
is_producer(comp) == comp.isdict /\ comp.tag = "ProducerComponent"

\* the indices of the list comprehension `producer`, in list order
producer_indices(component_templates) ==
    {n \in 1..Len(component_templates) : is_producer(component_templates[n])}

\* producer[0]
first_producer(component_templates) ==
    CHOOSE n \in producer_indices(component_templates) :
        \A m \in producer_indices(component_templates) : n <= m

\* variant: the producer block is replaced by a new dict that holds only the ids
parse_component_templates_fresh_block(component_templates, order) ==
    IF producer_indices(component_templates) = {}
    THEN [raised |-> FALSE, component_templates |-> component_templates]
    ELSE LET n == first_producer(component_templates)
             normalized == new_data_of(component_templates[n].productionlines,
                                       order, <<>>)
         IN IF normalized.raised
            THEN [raised |-> TRUE, component_templates |-> component_templates]
            ELSE [raised |-> FALSE,
                  component_templates |->
                      [component_templates EXCEPT
                          ![n].productionlines = normalized.new_data,
                          ![n].other = ""]]

\* _parse_component_templates: the list afterwards, or the exception
parse_component_templates(component_templates, order) ==
    IF producer_indices(component_templates) = {}
    THEN [raised |-> FALSE, component_templates |-> component_templates]
    ELSE LET n == first_producer(component_templates)
             producer_data == component_templates[n]
             original_data == producer_data.productionlines
             normalized == new_data_of(original_data, order, <<>>)
         IN IF normalized.raised
            THEN [raised |-> TRUE, component_templates |-> component_templates]
            ELSE [raised |-> FALSE,
                  component_templates |->
                      [component_templates EXCEPT
                          ![n].productionlines = normalized.new_data]]

\* ------------------------------------------------------ class resolution
\* the modules below basepackage 'horizons.world.building.' and their classes
building_modules ==
    [building |-> {"ResidentialBuilding"}, production |-> {"Farm"}]

\* the index of the first '.' of baseclass, 0 when there is none
first_dot(baseclass) ==
    IF \E n \in 1..Len(baseclass) : baseclass[n] = "."
    THEN CHOOSE n \in 1..Len(baseclass) :
            /\ baseclass[n] = "."
            /\ \A m \in 1..(n - 1) : baseclass[m] # "."
    ELSE 0

\* __new__: split baseclass at the first '.', import the module, get the class
new(baseclass) ==
    LET dot == first_dot(baseclass)
        class_package == SubSeq(baseclass, 1, dot - 1)
        class_name == SubSeq(baseclass, dot + 1, Len(baseclass))
    IN IF dot = 0
       THEN [raised |-> "ValueError", class_package |-> <<>>, class_name |-> <<>>]
       ELSE IF ~ (Len(class_package) = 1 /\ class_package[1] \in DOMAIN building_modules)
       THEN [raised |-> "ImportError", class_package |-> class_package,
             class_name |-> class_name]
       ELSE IF ~ (Len(class_name) = 1
                  /\ class_name[1] \in building_modules[class_package[1]])
       THEN [raised |-> "AttributeError", class_package |-> class_package,
             class_name |-> class_name]
       ELSE [raised |-> "no", class_package |-> class_package,
             class_name |-> class_name]

\* ------------------------------------------------------------ construction
\* __init__(id, yaml_data) on the class cls that __new__ returned
init(id, data, cls, order, tier) ==
    LET start_tier == start_tier_of(data, tier)
        names == init_names(data.name, start_tier, tier)
        self == [id |-> id,
                 name |-> names.name,
                 has_level_specific_names |-> names.has_level_specific_names,
                 level_specific_names |-> names.level_specific_names,
                 radius |-> data.radius,
                 component_templates |-> data.components,
                 action_sets |-> data.actionsets,
                 baseclass |-> data.baseclass,
                 real_object |-> "None",
                 additional_provided_resources |->
                     IF data.has_additional_provided_resources
                     THEN data.additional_provided_resources
                     ELSE <<>>,
                 class_package |-> cls.class_package,
                 class_name |-> cls.class_name]
        parsed == parse_component_templates(self.component_templates, order)
    IN IF names.raised
       THEN [raised |-> "AssertionError", steps |-> <<"names">>,
             self |-> self, components |-> data.components]
       ELSE IF parsed.raised
       THEN [raised |-> "Exception", steps |-> <<"names", "parse">>,
             self |-> self, components |-> data.components]
       ELSE [raised |-> "no", steps |-> <<"names", "parse">>,
             self |-> [self EXCEPT !.component_templates = parsed.component_templates],
             components |-> parsed.component_templates]

\* variant: the base class is looked up only after __init__ has run
type_call_init_first(id, data, order, tier) ==
    LET cls == new(data.baseclass)
        made == init(id, data, cls, order, tier)
    IN IF made.raised # "no"
       THEN [result |-> made.raised, steps |-> made.steps,
             made |-> FALSE, self |-> <<>>, components |-> made.components]
       ELSE IF cls.raised # "no"
       THEN [result |-> cls.raised, steps |-> made.steps \o <<"new">>,
             made |-> FALSE, self |-> <<>>, components |-> made.components]
       ELSE [result |-> "ok", steps |-> made.steps \o <<"new">>,
             made |-> TRUE, self |-> made.self, components |-> made.components]

\* IngameType(id, yaml_data): type.__call__ runs __new__, then __init__ on its result
type_call(id, data, order, tier) ==
    LET cls == new(data.baseclass)
        made == init(id, data, cls, order, tier)
    IN IF cls.raised # "no"
       THEN [result |-> cls.raised, steps |-> <<"new">>,
             made |-> FALSE, self |-> <<>>, components |-> data.components]
       ELSE IF made.raised # "no"
       THEN [result |-> made.raised, steps |-> <<"new">> \o made.steps,
             made |-> FALSE, self |-> <<>>, components |-> made.components]
       ELSE [result |-> "ok", steps |-> <<"new">> \o made.steps,
             made |-> TRUE, self |-> made.self, components |-> made.components]

\* -------------------------------------------------------------- fife object
\* _loadObject of the concrete type: "Inits self._real_object" with the object obj
load_object(self, obj) == [self EXCEPT !.real_object = obj]

\* variant: the object is loaded on every read
fife_object_always_loads(self, obj) ==
    [self |-> load_object(self, obj), loads |-> 1, value |-> obj]

\* the property _fife_object: the type afterwards, the loads done, the value returned
fife_object(self, obj) ==
    IF self.real_object = "None"
    THEN [self |-> load_object(self, obj), loads |-> 1, value |-> obj]
    ELSE [self |-> self, loads |-> 0, value |-> self.real_object]

\* ------------------------------------------------------------------- load
\* cls.__new__(cls): an object of the type on which no __init__ has run
blank_instance(cls) ==
    [cls |-> cls, init_ran |-> FALSE, session |-> "None",
     loaded |-> FALSE, db |-> "None", worldid |-> 0, session_at_load |-> "None"]

\* the load(db, worldid) of the base class; it reads self.session
base_load(self, db, worldid) ==
    [self EXCEPT !.loaded = TRUE, !.db = db, !.worldid = worldid,
                 !.session_at_load = self.session]

\* variant: the session is set only after the base class has loaded
load_binds_late(cls, session, db, worldid) ==
    LET self == blank_instance(cls)
        loaded == base_load(self, db, worldid)
    IN [loaded EXCEPT !.session = session]

\* the classmethod load(cls, session, db, worldid) that __new__ puts on the type
load(cls, session, db, worldid) ==
    LET self == blank_instance(cls)
        bound == [self EXCEPT !.session = session]
    IN base_load(bound, db, worldid)

\* ------------------------------------------------------------------ inputs
Ids == {5}

NameStrings == {Str(<<>>), Str(<<"H">>), Str(<<"_", " ", "C">>)}

SingleNames == NameStrings \cup {None, Str(<<"_">>)}

NameDicts == UNION {[T -> NameStrings] : T \in SUBSET (0..MaxTierBound)}

DictName(d) == [isdict |-> TRUE, dict |-> d, single |-> None]

SingleName(n) == [isdict |-> FALSE, dict |-> <<>>, single |-> n]

NameData == {DictName(d) : d \in NameDicts} \cup {SingleName(n) : n \in SingleNames}

\* 255025051 is the id that "wood" hashes to; "line12554" and "line78947"
\* hash to the same id
Keys == {IntKey(0 - 1), IntKey(7), IntKey(255025051),
         StrKey("wood"), StrKey("boards"), StrKey("line12554"), StrKey("line78947")}

ProductionLines ==
    UNION {[K -> {"p", "q"}] : K \in {S \in SUBSET Keys : Cardinality(S) <= MaxLines}}

HealthComponent ==
    [isdict |-> FALSE, tag |-> "HealthComponent", productionlines |-> <<>>, other |-> ""]

\* a dict component of another kind; its data has the shape of the producer's
StorageComponent ==
    [isdict |-> TRUE, tag |-> "StorageComponent",
     productionlines |-> (StrKey("wood") :> "p"), other |-> "inventory"]

ProducerComponent(lines) ==
    [isdict |-> TRUE, tag |-> "ProducerComponent",
     productionlines |-> lines, other |-> "start_inactive"]

ComponentLists ==
    {<<>>, <<HealthComponent>>, <<StorageComponent, HealthComponent>>}
    \cup {<<ProducerComponent(l)>> : l \in ProductionLines}
    \cup {<<HealthComponent, ProducerComponent(l), StorageComponent>> : l \in ProductionLines}

ResidentialBuilding == <<"building", ".", "ResidentialBuilding">>

BaseClasses ==
    {ResidentialBuilding,
     <<"production", ".", "Farm">>,
     <<"building", ".", "Farm">>,
     <<"units", ".", "ResidentialBuilding">>,
     <<"building", ".", "sub", ".", "ResidentialBuilding">>,
     <<"building">>}

Definition(baseclass, name, has_tier, tier, components, has_apr) ==
    [baseclass |-> baseclass, name |-> name, has_tier |-> has_tier, tier |-> tier,
     radius |-> 1, components |-> components, actionsets |-> "as_lumberjack0",
     has_additional_provided_resources |-> has_apr,
     additional_provided_resources |-> IF has_apr THEN <<"res">> ELSE <<>>]

\* the definitions of the model: every name with every tier, every component
\* list, and the combinations of a bad or good name, components and baseclass
Definitions(tier) ==
    {Definition(ResidentialBuilding, n, TRUE, t, <<HealthComponent>>, FALSE) :
        n \in NameData, t \in tier.NATURE..tier.CURRENT_MAX}
    \cup {Definition(ResidentialBuilding, n, FALSE, 0, <<HealthComponent>>, FALSE) :
        n \in NameData}
    \cup {Definition(ResidentialBuilding, SingleName(Str(<<"_", " ", "C">>)),
                     FALSE, 0, c, FALSE) : c \in ComponentLists}
    \cup {Definition(b, n, FALSE, 0, c, TRUE) :
        b \in BaseClasses,
        n \in {DictName(<<>>), DictName((tier.NATURE :> Str(<<"H">>)))},
        c \in {<<ProducerComponent((StrKey("wood") :> "p"))>>,
               <<ProducerComponent((StrKey("wood") :> "p") @@ (IntKey(255025051) :> "q"))>>}}

\* the orders in which a dict with the key set S may yield its keys
Orders(S) ==
    {o \in [1..Cardinality(S) -> S] : \A a, b \in 1..Cardinality(S) : o[a] = o[b] => a = b}

\* the keys of the productionlines dict that _parse_component_templates iterates
IteratedKeys(component_templates) ==
    IF producer_indices(component_templates) = {}
    THEN {}
    ELSE DOMAIN component_templates[first_producer(component_templates)].productionlines

FifeObjects == {"fife_a", "fife_b"}

Sessions == {"session"}

Dbs == {"db"}

WorldIds == {100001, 100002}

\* ---------------------------------------------------------- state machine
Init ==
    /\ TIER \in {[NATURE |-> lo, CURRENT_MAX |-> hi] :
                    lo \in 0..1, hi \in 0..MaxTierBound}
    /\ TIER.NATURE <= TIER.CURRENT_MAX
    /\ definition \in Definitions(TIER)
    /\ yaml_data = definition
    /\ types = <<>>
    /\ result = "none"
    /\ steps = <<>>
    /\ load_object_calls = 0
    /\ fife_objects = <<>>
    /\ instances = <<>>
    /\ load_calls = <<>>

\* the session builds the type: IngameType(id, yaml_data)
Create(id) ==
    /\ result = "none"
    /\ \E order \in Orders(IteratedKeys(yaml_data.components)) :
          LET call == type_call(id, yaml_data, order, TIER) IN
          /\ result' = call.result
          /\ steps' = call.steps
          /\ types' = IF call.made THEN (id :> call.self) ELSE types
          /\ yaml_data' = [yaml_data EXCEPT !.components = call.components]
    /\ UNCHANGED <<TIER, definition, load_object_calls, fife_objects, instances, load_calls>>

\* a reader gets cls._fife_object; the concrete _loadObject creates the object obj
FifeObject(id) ==
    /\ id \in DOMAIN types
    /\ Len(fife_objects) < MaxAccesses
    /\ \E obj \in FifeObjects :
          LET got == fife_object(types[id], obj) IN
          /\ types' = [types EXCEPT ![id] = got.self]
          /\ load_object_calls' = load_object_calls + got.loads
          /\ fife_objects' = Append(fife_objects, got.value)
    /\ UNCHANGED <<TIER, definition, yaml_data, result, steps, instances, load_calls>>

\* a savegame is loaded: cls.load(session, db, worldid)
Load(id) ==
    /\ id \in DOMAIN types
    /\ Len(instances) < MaxInstances
    /\ \E session \in Sessions, db \in Dbs, worldid \in WorldIds :
          /\ instances' = Append(instances, load(id, session, db, worldid))
          /\ load_calls' = Append(load_calls,
                 [session |-> session, db |-> db, worldid |-> worldid,
                  returned |-> Len(instances) + 1])
    /\ UNCHANGED <<TIER, definition, yaml_data, types, result, steps,
                   load_object_calls, fife_objects>>

Next ==
    \/ \E id \in Ids : Create(id)
    \/ \E id \in Ids : FifeObject(id)
    \/ \E id \in Ids : Load(id)

Spec == Init /\ [][Next]_vars

\* ------------------------------------------------------------- properties
TheId == CHOOSE id \in Ids : TRUE

Called == result # "none"

Made == result = "ok"

StartTier == start_tier_of(definition, TIER)

ClassErrors == {"ValueError", "ImportError", "AttributeError"}

\* the baseclass references that name a class of building_modules
Resolvable == {<<"building", ".", "ResidentialBuilding">>, <<"production", ".", "Farm">>}

HasProducer == producer_indices(definition.components) # {}

\* the productionlines of the producer block, as authored and as left by the call
OriginalLines == definition.components[first_producer(definition.components)].productionlines

NormalizedLines == yaml_data.components[first_producer(definition.components)].productionlines

\* two different keys of the authored productionlines get the same integer
Collision ==
    \E a, b \in DOMAIN OriginalLines : a # b /\ new_key_of(a) = new_key_of(b)

\* C1: a type built from a dict name has a name for exactly the tiers from its
\* start tier to TIER.CURRENT_MAX, and a tier the dict does not name has the
\* name of the tier below it
C1_TieredNamesComplete ==
    (Made /\ definition.name.isdict) =>
        LET names == types[TheId].level_specific_names IN
        /\ types[TheId].has_level_specific_names
        /\ StartTier <= TIER.CURRENT_MAX
        /\ DOMAIN names = StartTier..TIER.CURRENT_MAX
        /\ \A lvl \in StartTier..TIER.CURRENT_MAX :
              lvl \notin DOMAIN definition.name.dict =>
                  /\ lvl - 1 \in DOMAIN names
                  /\ lvl \in DOMAIN names
                  /\ names[lvl] = names[lvl - 1]

C1_Witness ==
    /\ Made
    /\ definition.name.isdict
    /\ StartTier < TIER.CURRENT_MAX
    /\ TIER.CURRENT_MAX \notin DOMAIN definition.name.dict
    /\ \E lvl \in DOMAIN definition.name.dict : lvl < StartTier

\* C2: _loadObject is not invoked before the first read of _fife_object, is
\* invoked exactly once by the first read, and every read returns the object
\* that this one invocation stored
C2_LoadedOnce ==
    /\ (fife_objects = <<>>) => load_object_calls = 0
    /\ (fife_objects # <<>>) =>
          /\ load_object_calls = 1
          /\ \A n \in 1..Len(fife_objects) :
                /\ fife_objects[n] = fife_objects[1]
                /\ fife_objects[n] = types[TheId].real_object
    /\ \A id \in DOMAIN types :
          (fife_objects = <<>>) => types[id].real_object = "None"

C2_Witness ==
    /\ Len(fife_objects) >= 3
    /\ load_object_calls = 1

\* C3: when two different keys of the productionlines get the same integer, the
\* call makes no type; it raises the id conflict Exception, unless __new__ or
\* the names already raised; so a type that was made has no two such keys
C3_ConflictRaises ==
    /\ (Called /\ HasProducer /\ Collision) =>
          /\ ~ Made
          /\ types = <<>>
          /\ (steps[Len(steps)] = "parse") => result = "Exception"
          /\ (steps[Len(steps)] = "names") => result = "AssertionError"
          /\ (steps[Len(steps)] = "new") => result \in ClassErrors
          /\ (definition.baseclass \in Resolvable
              /\ (definition.name.isdict => StartTier \in DOMAIN definition.name.dict))
                 => result = "Exception"
    /\ (Made /\ HasProducer) => ~ Collision

C3_Witness ==
    /\ result = "Exception"
    /\ HasProducer
    /\ \E a, b \in DOMAIN OriginalLines :
          a # b /\ ~ a.isint /\ ~ b.isint /\ new_key_of(a) = new_key_of(b)

\* C4 as stated: every key of the normalized productionlines is a
\* non-negative integer, whatever the sign of the integer keys of the input
C4_KeysNonNegative ==
    (Made /\ HasProducer) =>
        \A k \in DOMAIN NormalizedLines : k.isint /\ k.i >= 0

\* C4 amended: every key of the normalized productionlines is an integer; the
\* key made from a string key is in 0..2^31-1; an integer key of the input is
\* kept with its sign, so a negative key is a negative integer key of the input
C4_KeysIntegers ==
    (Made /\ HasProducer) =>
        /\ \A k \in DOMAIN NormalizedLines :
              /\ k.isint
              /\ k.i < 0 => (k \in DOMAIN OriginalLines)
        /\ \A old \in DOMAIN OriginalLines :
              IF old.isint
              THEN old \in DOMAIN NormalizedLines
              ELSE \E k \in DOMAIN NormalizedLines :
                      /\ k.i >= 0
                      /\ k.i <= 2147483647
                      /\ k.i = sha1_int(old.s).low
                      /\ NormalizedLines[k] = OriginalLines[old]

C4_Witness ==
    /\ Made
    /\ HasProducer
    /\ \E a, b \in DOMAIN OriginalLines :
          /\ a.isint /\ a.i < 0 /\ a \in DOMAIN NormalizedLines
          /\ ~ b.isint /\ sha1_int(b.s).bit31 = 1

\* C5: when the name is a dict without an entry for the start tier, the call
\* makes no type; it raises the AssertionError of the name loop (after __new__
\* succeeded) and does not go on to the component templates
C5_MissingStartTierRaises ==
    (Called /\ definition.name.isdict /\ StartTier \notin DOMAIN definition.name.dict) =>
        /\ ~ Made
        /\ types = <<>>
        /\ yaml_data = definition
        /\ (definition.baseclass \in Resolvable) =>
              /\ result = "AssertionError"
              /\ steps = <<"new", "names">>
        /\ (definition.baseclass \notin Resolvable) => result \in ClassErrors

C5_Witness ==
    /\ result = "AssertionError"
    /\ \E lvl \in DOMAIN definition.name.dict : lvl < StartTier
    /\ \E lvl \in DOMAIN definition.name.dict :
          lvl > StartTier /\ lvl <= TIER.CURRENT_MAX

\* the translation marking rule
Marked(string) ==
    IF string = None \/ Len(string.text) = 0
    THEN Str(<<>>)
    ELSE IF Len(string.text) >= 2 /\ SubSeq(string.text, 1, 2) = <<"_", " ">>
         THEN LazyT(Tail(Tail(string.text)))
         ELSE string

\* C6 as stated: a single string name gives the type the marked name and the
\* name table {start tier: that name}
C6_SingleNameTable ==
    (Made /\ ~ definition.name.isdict) =>
        /\ types[TheId].name = Marked(definition.name.single)
        /\ types[TheId].has_level_specific_names
        /\ types[TheId].level_specific_names = (StartTier :> types[TheId].name)

\* C6 amended: a single string name gives the type the marked name, and the
\* type gets no name table at all
C6_SingleNameNoTable ==
    (Made /\ ~ definition.name.isdict) =>
        /\ types[TheId].name = Marked(definition.name.single)
        /\ ~ types[TheId].has_level_specific_names

C6_Witness ==
    /\ Made
    /\ ~ definition.name.isdict
    /\ definition.name.single = Str(<<"_", " ", "C">>)
    /\ types[TheId].name = LazyT(<<"C">>)

\* C7: an integer key of the productionlines is a key of the normalized
\* productionlines with the same value, and the normalized productionlines has
\* as many entries as the authored one
C7_IntegerKeysKept ==
    (Made /\ HasProducer) =>
        /\ \A k \in DOMAIN OriginalLines :
              k.isint => /\ k \in DOMAIN NormalizedLines
                         /\ NormalizedLines[k] = OriginalLines[k]
        /\ Cardinality(DOMAIN NormalizedLines) = Cardinality(DOMAIN OriginalLines)

C7_Witness ==
    /\ Made
    /\ HasProducer
    /\ \E a, b \in DOMAIN OriginalLines :
          /\ a.isint /\ a.i < 0 /\ ~ b.isint
          /\ OriginalLines[a] # OriginalLines[b]

\* C8: when baseclass names no class of the modules, the call raises in
\* __new__: no step of __init__ has run, yaml_data is as authored, no type is made
C8_UnresolvedClassRaisesFirst ==
    /\ (Called /\ definition.baseclass \notin Resolvable) =>
          /\ result \in ClassErrors
          /\ steps = <<"new">>
          /\ yaml_data = definition
          /\ types = <<>>
    /\ (Called /\ definition.baseclass \in Resolvable) => result \notin ClassErrors

C8_Witness ==
    /\ result = "ImportError"
    /\ definition.name = DictName(<<>>)
    /\ HasProducer
    /\ Collision

\* C9: the call changes nothing of yaml_data but the productionlines of the
\* producer block: without a producer block the component list is as authored,
\* with one the list has the same blocks in the same order and the producer
\* block differs at most in its productionlines
C9_OnlyProductionLinesChange ==
    /\ [yaml_data EXCEPT !.components = definition.components] = definition
    /\ Len(yaml_data.components) = Len(definition.components)
    /\ ~ HasProducer => yaml_data.components = definition.components
    /\ \A n \in 1..Len(definition.components) :
          IF is_producer(definition.components[n])
          THEN [yaml_data.components[n] EXCEPT
                   !.productionlines = definition.components[n].productionlines]
               = definition.components[n]
          ELSE yaml_data.components[n] = definition.components[n]
    /\ Made => types[TheId].component_templates = yaml_data.components

C9_Witness ==
    /\ Made
    /\ Len(definition.components) = 3
    /\ HasProducer
    /\ NormalizedLines # OriginalLines
    /\ yaml_data.components[3] = StorageComponent

\* what holds of every call of load that has returned
C10_Loaded ==
    /\ Len(load_calls) = Len(instances)
    /\ \A n \in 1..Len(instances) :
          /\ load_calls[n].returned = n
          /\ instances[n].cls = TheId
          /\ ~ instances[n].init_ran
          /\ instances[n].session = load_calls[n].session
          /\ instances[n].session_at_load = load_calls[n].session
          /\ instances[n].loaded
          /\ instances[n].db = load_calls[n].db
          /\ instances[n].worldid = load_calls[n].worldid

\* what a call of load changes
C10_LoadStep ==
    (load_calls' # load_calls) =>
        /\ Len(instances') = Len(instances) + 1
        /\ SubSeq(instances', 1, Len(instances)) = instances
        /\ types' = types
        /\ yaml_data' = yaml_data

\* C10: every call of load allocates a new object on which __init__ does not
\* run, sets its session before the load of the base class runs with db and
\* worldid, returns that object, and leaves the type and earlier objects as
\* they were
C10_LoadRestoresFreshInstance == [](C10_Loaded) /\ [][C10_LoadStep]_vars

C10_Witness ==
    /\ Len(instances) >= 2
    /\ instances[1].worldid # instances[2].worldid
    /\ instances[2].session_at_load \in Sessions
    /\ load_calls[2].returned = 2

====
